---- MODULE Spec2Model ----
(***************************************************************************)
(* A model of dinglebit/config.rs: the Config trait and its typed          *)
(* accessors (src/src/lib.rs), MultiConfig (src/src/multi.rs), Simple      *)
(* (src/src/simple.rs) and Environment (src/src/env.rs).                   *)
(*                                                                         *)
(* A Rust String is a sequence of one-character strings, so that trimming, *)
(* splitting, case mapping and parsing are computed character by           *)
(* character.  An Option<T> is a record [some |-> FALSE] or                *)
(* [some |-> TRUE, v |-> x].  The outcome of a call that may panic is a    *)
(* record [panic |-> TRUE] or [panic |-> FALSE, val |-> x].                *)
(***************************************************************************)
EXTENDS Integers, Sequences, FiniteSets, TLC

VARIABLES
    stored, tOp, tOut,                                  \* Config accessors
    mGiven, configs, mPc, mKey, mIdx, mProbes, mResult, \* MultiConfig
    sInput, sPc, sResult, sKey, sGot,                   \* Simple
    rawPrefix, prefix, env, eOp, eKey, eName, eResult, eFed \* Environment

typedVars  == <<stored, tOp, tOut>>
multiVars  == <<mGiven, configs, mPc, mKey, mIdx, mProbes, mResult>>
simpleVars == <<sInput, sPc, sResult, sKey, sGot>>
envVars    == <<rawPrefix, prefix, env, eOp, eKey, eName, eResult, eFed>>
vars       == <<typedVars, multiVars, simpleVars, envVars>>

----------------------------------------------------------------------------
(* Bounds of the model.                                                    *)

\* Longest string enumerated exhaustively over each alphabet.
MaxLen == 3

\* Most sources a MultiConfig is built from.
MaxSources == 2

\* Longest input of Simple::from_str enumerated exhaustively.
MaxInput == 4

\* Longest prefix of an Environment enumerated exhaustively.
MaxPrefix == 2

\* Most environment variables set at a time.
MaxEnvVars == 1

----------------------------------------------------------------------------
(* Option<T> and panicking outcomes.                                       *)

None == [some |-> FALSE]

Some(x) == [some |-> TRUE, v |-> x]

Panic == [panic |-> TRUE]

Ok(x) == [panic |-> FALSE, val |-> x]

\* Option::unwrap
unwrap(o) == IF o.some THEN Ok(o.v) ELSE Panic

----------------------------------------------------------------------------
(* Strings.                                                                *)

RECURSIVE SeqsUpTo(_, _)
\* All sequences over S of length at most n.
SeqsUpTo(S, n) ==
    IF n = 0 THEN {<<>>}
    ELSE LET prev == SeqsUpTo(S, n - 1)
         IN  prev \cup {Append(s, c) : s \in prev, c \in S}

UpperLetters ==
    <<"A","B","C","D","E","F","G","H","I","J","K","L","M",
      "N","O","P","Q","R","S","T","U","V","W","X","Y","Z">>

LowerLetters ==
    <<"a","b","c","d","e","f","g","h","i","j","k","l","m",
      "n","o","p","q","r","s","t","u","v","w","x","y","z">>

LowerChar(c) ==
    IF \E i \in 1..Len(UpperLetters) : UpperLetters[i] = c
    THEN LowerLetters[CHOOSE i \in 1..Len(UpperLetters) : UpperLetters[i] = c]
    ELSE c

UpperChar(c) ==
    IF \E i \in 1..Len(LowerLetters) : LowerLetters[i] = c
    THEN UpperLetters[CHOOSE i \in 1..Len(LowerLetters) : LowerLetters[i] = c]
    ELSE c

\* str::to_lowercase
to_lowercase(s) == [i \in 1..Len(s) |-> LowerChar(s[i])]

\* a case mapping that turns upper case into lower case as well
to_swapped_case(s) ==
    [i \in 1..Len(s) |->
        IF UpperChar(s[i]) # s[i] THEN UpperChar(s[i]) ELSE LowerChar(s[i])]

\* str::to_uppercase
to_uppercase(s) == [i \in 1..Len(s) |-> UpperChar(s[i])]

RECURSIVE trim_start_matches(_, _)
\* str::trim_start_matches with a set of characters as the pattern
trim_start_matches(s, cs) ==
    IF s # <<>> /\ Head(s) \in cs THEN trim_start_matches(Tail(s), cs) ELSE s

RECURSIVE trim_end_matches(_, _)
\* str::trim_end_matches with a set of characters as the pattern
trim_end_matches(s, cs) ==
    IF s # <<>> /\ s[Len(s)] \in cs
    THEN trim_end_matches(SubSeq(s, 1, Len(s) - 1), cs)
    ELSE s

\* str::trim_matches: every matching character is removed from both ends
trim_matches(s, cs) == trim_end_matches(trim_start_matches(s, cs), cs)

\* char::is_whitespace, on the characters the model uses
Whitespace == {" ", "\t", "\n", "\r"}

\* str::trim
trim(s) == trim_matches(s, Whitespace)

\* str::starts_with
starts_with(s, p) == Len(s) >= Len(p) /\ SubSeq(s, 1, Len(p)) = p

\* str::replace, for a pattern and a replacement of one character each
replace(s, from, to) == [i \in 1..Len(s) |-> IF s[i] = from THEN to ELSE s[i]]

\* str::find: the index of the first occurrence of pat in s, 0 when none
find(s, pat) ==
    LET hits == {i \in 1..(Len(s) - Len(pat) + 1) :
                    SubSeq(s, i, i + Len(pat) - 1) = pat}
    IN  IF hits = {} THEN 0
        ELSE CHOOSE i \in hits : \A j \in hits : i <= j

RECURSIVE split(_, _)
\* str::split: the pieces between the non-overlapping occurrences of pat,
\* left to right; a string without pat (the empty one too) is one piece
split(s, pat) ==
    LET i == find(s, pat)
    IN  IF i = 0 THEN <<s>>
        ELSE <<SubSeq(s, 1, i - 1)>>
             \o split(SubSeq(s, i + Len(pat), Len(s)), pat)

\* str::splitn(2, pat): at most two pieces, cut at the first occurrence
splitn2(s, pat) ==
    LET i == find(s, pat)
    IN  IF i = 0 THEN <<s>>
        ELSE <<SubSeq(s, 1, i - 1), SubSeq(s, i + Len(pat), Len(s))>>

----------------------------------------------------------------------------
(* i64 parsing (str::parse::<i64>).  TLC's integers are 32 bits wide, so   *)
(* a magnitude is kept as its decimal digits without leading zeros (zero   *)
(* is the empty sequence) and compared digit by digit with the limits.     *)

Digits == <<"0","1","2","3","4","5","6","7","8","9">>

is_digit(c) == \E d \in 1..10 : Digits[d] = c

\* char::to_digit(10)
to_digit(c) == (CHOOSE d \in 1..10 : Digits[d] = c) - 1

\* i64::MAX = 9223372036854775807
I64MaxMag == <<9,2,2,3,3,7,2,0,3,6,8,5,4,7,7,5,8,0,7>>

\* -i64::MIN = 9223372036854775808
I64MinMag == <<9,2,2,3,3,7,2,0,3,6,8,5,4,7,7,5,8,0,8>>

\* a <= b for magnitudes
MagLE(a, b) ==
    \/ Len(a) < Len(b)
    \/ /\ Len(a) = Len(b)
       /\ \/ a = b
          \/ \E i \in 1..Len(a) :
                /\ a[i] < b[i]
                /\ \A j \in 1..(i - 1) : a[j] = b[j]

\* acc * 10 + d
MagPush(acc, d) == IF acc = <<>> /\ d = 0 THEN <<>> ELSE Append(acc, d)

RECURSIVE parse_digits(_, _, _)
\* The digit loop of from_str_radix: checked_mul by ten, then checked_add
\* (or checked_sub for a negative number); an overflow or a character that
\* is no digit ends it with an error.
parse_digits(s, acc, limit) ==
    IF s = <<>> THEN Some(acc)
    ELSE IF ~is_digit(Head(s)) THEN None
    ELSE LET next == MagPush(acc, to_digit(Head(s)))
         IN  IF MagLE(next, limit) THEN parse_digits(Tail(s), next, limit)
             ELSE None

\* str::parse::<i64>: Some([neg, mag]) or None for a ParseIntError
parse_i64(s) ==
    IF s = <<>> THEN None
    ELSE IF Head(s) \in {"+", "-"} /\ Tail(s) = <<>> THEN None
    ELSE LET neg  == Head(s) = "-"
             body == IF Head(s) \in {"+", "-"} THEN Tail(s) ELSE s
             r    == parse_digits(body, <<>>, IF neg THEN I64MinMag ELSE I64MaxMag)
         IN  IF r.some THEN Some([neg |-> neg /\ r.v # <<>>, mag |-> r.v])
             ELSE None

----------------------------------------------------------------------------
(* The Config trait's provided methods, over what self.get(key) answers.   *)

\* must_get with a default in place of the panic
must_get_or_default(g) == IF g.some THEN Ok(g.v) ELSE Ok(<<>>)

\* Config::must_get
must_get(g) == unwrap(g)

\* Config::string
string(g) == unwrap(g)

\* Config::int
int(g) ==
    LET s == must_get(g)
    IN  IF s.panic THEN Panic ELSE unwrap(parse_i64(s.val))

\* bool without the lower-casing
bool_case_sensitive(g) ==
    LET s == unwrap(g)
    IN  IF s.panic THEN Panic
        ELSE Ok(s.val \in {<<"t">>, <<"t","r","u","e">>, <<"1">>, <<"y">>,
                           <<"y","e","s">>})

\* Config::bool
bool(g) ==
    LET s == must_get(g)
    IN  IF s.panic THEN Panic
        ELSE LET l == to_lowercase(s.val)
             IN  Ok(CASE l = <<"t">> -> TRUE
                      [] l = <<"t","r","u","e">> -> TRUE
                      [] l = <<"1">> -> TRUE
                      [] l = <<"y">> -> TRUE
                      [] l = <<"y","e","s">> -> TRUE
                      [] OTHER -> FALSE)

\* Config::duration: the integer is the number of seconds
duration(g) ==
    LET n == int(g)
    IN  IF n.panic THEN Panic ELSE Ok([secs |-> n.val])

\* list without the trimming of each element
list_untrimmed(g) ==
    LET s == unwrap(g)
    IN  IF s.panic THEN Panic
        ELSE Ok(split(trim_matches(s.val, {"[", "]"} \cup Whitespace), <<",">>))

\* Config::list
list(g) ==
    LET s == must_get(g)
    IN  IF s.panic THEN Panic
        ELSE LET t == trim_matches(s.val, {"[", "]"} \cup Whitespace)
                 ps == split(t, <<",">>)
             IN  Ok([i \in 1..Len(ps) |-> trim(ps[i])])

\* One entry of Config::map: the first two pieces around "=>"
map_entry(p) ==
    LET parts == split(p, <<"=", ">">>)
    IN  IF Len(parts) < 2 THEN <<trim(parts[1]), <<>>>>
        ELSE <<trim(parts[1]), trim(parts[2])>>

\* HashMap::insert: the value replaces the one the key had
insert(m, k, v) == [x \in DOMAIN m \cup {k} |-> IF x = k THEN v ELSE m[x]]

RECURSIVE collect_first_wins(_, _)
\* collect in which an earlier pair keeps its key
collect_first_wins(pairs, m) ==
    IF pairs = <<>> THEN m
    ELSE LET k == Head(pairs)[1]
             v == Head(pairs)[2]
         IN  collect_first_wins(Tail(pairs),
                 [x \in DOMAIN m \cup {k} |->
                     IF x \in DOMAIN m THEN m[x] ELSE v])

RECURSIVE collect(_, _)
\* Iterator::collect into a HashMap: the pairs are inserted in order
collect(pairs, m) ==
    IF pairs = <<>> THEN m
    ELSE collect(Tail(pairs), insert(m, Head(pairs)[1], Head(pairs)[2]))

\* Config::map
map(g) ==
    LET s == must_get(g)
    IN  IF s.panic THEN Panic
        ELSE LET t == trim_matches(s.val, {"{", "}"} \cup Whitespace)
                 ps == split(t, <<",">>)
             IN  Ok(collect([i \in 1..Len(ps) |-> map_entry(ps[i])], <<>>))


----------------------------------------------------------------------------
(* impl Config for HashMap<&str, &str>, seen through one key: `stored` is  *)
(* what the table holds for the key the accessors are called with.  The    *)
(* provided methods read the object through self.get(key) alone.           *)

\* HashMap<&str, &str>::get of the Config trait
HashMap_get(held) == IF held.some THEN Some(held.v) ELSE None

ListChars == {"[", "]", ",", " ", "1"}

MapChars == {"{", "}", ",", "=", ">", " ", "a"}

BoolChars == {"t", "T", "y", "1", " "}

IntChars == {"-", "+", "0", "7", "x"}

\* Values of the repository's tests and of the documentation, and the
\* i64 limits
Examples ==
    { <<"b","a","r">>,
      <<"1","0","0">>,
      <<"5","0">>,
      <<"[","1",","," ","2",","," ","3","]">>,
      <<"1",",","2",",","3">>,
      <<"[","[","1",","," ","2","]","]">>,
      <<"{","a","=",">","1",","," ","b","=",">","2",","," ","c","=",">","3","}">>,
      <<"a","=",">","b","=",">","c">>,
      <<"a","=",">","1",",","a","=",">","2">>,
      <<"t","r","u","e">>, <<"T","R","U","E">>, <<"T","r","u","e">>,
      <<"y","e","s">>, <<"Y","E","S">>, <<"Y">>,
      <<"n","o">>, <<"0">>, <<"m","a","y","b","e">>, <<"f","a","l","s","e">>,
      <<"9","2","2","3","3","7","2","0","3","6","8","5","4","7","7","5","8","0","7">>,
      <<"9","2","2","3","3","7","2","0","3","6","8","5","4","7","7","5","8","0","8">>,
      <<"-","9","2","2","3","3","7","2","0","3","6","8","5","4","7","7","5","8","0","8">>,
      <<"-","9","2","2","3","3","7","2","0","3","6","8","5","4","7","7","5","8","0","9">>,
      <<"0","0","9","2","2","3","3","7","2","0","3","6","8","5","4","7","7","5","8","0","7">> }

Values ==
    SeqsUpTo(ListChars, MaxLen) \cup SeqsUpTo(MapChars, MaxLen)
        \cup SeqsUpTo(BoolChars, MaxLen) \cup SeqsUpTo(IntChars, MaxLen)
        \cup Examples

MultiIdle ==
    /\ mGiven = <<>>
    /\ configs = <<>>
    /\ mPc = "off"
    /\ mKey = "x"
    /\ mIdx = 0
    /\ mProbes = <<>>
    /\ mResult = None

SimpleIdle ==
    /\ sInput = <<>>
    /\ sPc = "off"
    /\ sResult = <<>>
    /\ sKey = <<>>
    /\ sGot = None

EnvIdle ==
    /\ rawPrefix = <<>>
    /\ prefix = <<>>
    /\ env = <<>>
    /\ eOp = "off"
    /\ eKey = <<>>
    /\ eName = <<>>
    /\ eResult = None
    /\ eFed = FALSE

TypedInit ==
    /\ stored \in {None} \cup {Some(s) : s \in Values}
    /\ tOp = "new"
    /\ tOut = Ok(None)
    /\ MultiIdle /\ SimpleIdle /\ EnvIdle

\* One call of an accessor on the config: the outcome is recorded.
Call(op, out) ==
    /\ tOp' = op
    /\ tOut' = out
    /\ UNCHANGED <<stored, multiVars, simpleVars, envVars>>

CallGet == Call("get", Ok(HashMap_get(stored)))

CallMustGet == Call("must_get", must_get(HashMap_get(stored)))

CallString == Call("string", string(HashMap_get(stored)))

CallInt == Call("int", int(HashMap_get(stored)))

CallBool == Call("bool", bool(HashMap_get(stored)))

CallDuration == Call("duration", duration(HashMap_get(stored)))

CallList == Call("list", list(HashMap_get(stored)))

CallMap == Call("map", map(HashMap_get(stored)))

TypedNext ==
    \/ CallGet
    \/ CallMustGet
    \/ CallString
    \/ CallInt
    \/ CallBool
    \/ CallDuration
    \/ CallList
    \/ CallMap

SpecTyped == TypedInit /\ [][TypedNext]_vars

----------------------------------------------------------------------------
(* Properties of the typed accessors.  What a claim expects is stated by   *)
(* positions in the string, not by the scanning the accessors do.          *)

FatalGetters == {"must_get", "string", "int", "duration", "list", "map"}

\* s is an optional sign, then one or more decimal digits, and the number
\* lies in -2^63 .. 2^63 - 1
IsI64Literal(s) ==
    LET signed == s # <<>> /\ s[1] \in {"+", "-"}
        body   == IF signed THEN SubSeq(s, 2, Len(s)) ELSE s
        nz     == {i \in 1..Len(body) : body[i] # "0"}
        first  == IF nz = {} THEN Len(body) + 1
                  ELSE CHOOSE i \in nz : \A j \in nz : i <= j
        sig    == SubSeq(body, first, Len(body))
    IN  /\ body # <<>>
        /\ \A i \in 1..Len(body) : is_digit(body[i])
        /\ MagLE([i \in 1..Len(sig) |-> to_digit(sig[i])],
                 IF signed /\ s[1] = "-" THEN I64MinMag ELSE I64MaxMag)

\* C3: when get(key) is absent, must_get, string, int, duration, list and
\* map panic and get returns absent without failing; when the value is
\* present but no signed 64-bit integer literal, int and duration panic;
\* when it is present, must_get and string return exactly that string.
C3_FailFast ==
    /\ tOp = "get" => tOut = Ok(stored)
    /\ (~stored.some /\ tOp \in FatalGetters) => tOut.panic
    /\ (stored.some /\ ~IsI64Literal(stored.v) /\ tOp \in {"int", "duration"})
          => tOut.panic
    /\ (stored.some /\ tOp \in {"must_get", "string"}) => tOut = Ok(stored.v)

\* int has panicked on 2^63, which is a digit string but overflows an i64
C3_Witness ==
    /\ tOp = "int"
    /\ stored = Some(<<"9","2","2","3","3","7","2","0","3","6",
                       "8","5","4","7","7","5","8","0","8">>)
    /\ tOut.panic

\* The part of s between its first and its last character outside cs
Core(s, cs) ==
    LET keep == {i \in 1..Len(s) : s[i] \notin cs}
    IN  IF keep = {} THEN <<>>
        ELSE SubSeq(s, CHOOSE i \in keep : \A j \in keep : i <= j,
                       CHOOSE i \in keep : \A j \in keep : j <= i)

\* The position of the n-th character c of s; 0 for n = 0 and Len(s) + 1
\* past the last one
NthAt(s, c, n) ==
    LET at == {i \in 1..Len(s) : s[i] = c}
    IN  IF n = 0 THEN 0
        ELSE IF n > Cardinality(at) THEN Len(s) + 1
        ELSE CHOOSE i \in at : Cardinality({j \in at : j <= i}) = n

\* The fields of s between its characters c, each with its surrounding
\* whitespace removed
Fields(s, c) ==
    [n \in 1..(Cardinality({i \in 1..Len(s) : s[i] = c}) + 1) |->
        Core(SubSeq(s, NthAt(s, c, n - 1) + 1, NthAt(s, c, n) - 1), Whitespace)]

\* s without its surrounding whitespace, then without one leading "[" if
\* there is one and one trailing "]" if there is one
StripOnePair(s) ==
    LET t == Core(s, Whitespace)
        u == IF t # <<>> /\ t[1] = "[" THEN SubSeq(t, 2, Len(t)) ELSE t
    IN  IF u # <<>> /\ u[Len(u)] = "]" THEN SubSeq(u, 1, Len(u) - 1) ELSE u

\* C4 as stated: list(key) removes at most one leading "[" and at most one
\* trailing "]" after trimming, splits on "," and trims each element; the
\* empty value yields one empty element.
C4_OnePairOnly ==
    (tOp = "list" /\ stored.some)
        => tOut = Ok(Fields(StripOnePair(stored.v), ","))

\* C4 as amended: list(key) removes EVERY leading and trailing character
\* that is "[", "]" or whitespace, in any number and order, then splits on
\* "," and trims each element, keeping order; the empty value yields one
\* empty element.
C4_ListStripsAll ==
    (tOp = "list" /\ stored.some)
        => /\ tOut = Ok(Fields(Core(stored.v, {"[", "]"} \cup Whitespace), ","))
           /\ stored.v = <<>> => tOut.val = << <<>> >>

\* list has been called on "[[1, 2]]" and no element kept a bracket
C4_Witness ==
    /\ tOp = "list"
    /\ stored = Some(<<"[","[","1",","," ","2","]","]">>)
    /\ tOut = Ok(<< <<"1">>, <<"2">> >>)

\* The positions where "=>" starts in e
Arrows(e) == {i \in 1..(Len(e) - 1) : e[i] = "=" /\ e[i + 1] = ">"}

\* The first "=>" of e at or after position from; Len(e) + 1 when none
ArrowFrom(e, from) ==
    LET at == {i \in Arrows(e) : i >= from}
    IN  IF at = {} THEN Len(e) + 1
        ELSE CHOOSE i \in at : \A j \in at : i <= j

\* The entries of a map value: its fields between commas, braces and
\* whitespace around the whole value removed first
Entries(s) ==
    LET t == Core(s, {"{", "}"} \cup Whitespace)
    IN  [n \in 1..(Cardinality({i \in 1..Len(t) : t[i] = ","}) + 1) |->
            SubSeq(t, NthAt(t, ",", n - 1) + 1, NthAt(t, ",", n) - 1)]

\* The key of an entry: the trimmed text before its first "=>"
EntryKey(e) == Core(SubSeq(e, 1, ArrowFrom(e, 1) - 1), Whitespace)

\* The trimmed whole remainder after the first "=>"
EntryRest(e) == Core(SubSeq(e, ArrowFrom(e, 1) + 2, Len(e)), Whitespace)

\* The trimmed text between the first "=>" and the next one after it
EntrySecond(e) ==
    LET a == ArrowFrom(e, 1)
    IN  Core(SubSeq(e, a + 2, ArrowFrom(e, a + 2) - 1), Whitespace)

\* The table in which each key has the value of the last entry with it
LastWins(es, Value(_)) ==
    [k \in {EntryKey(es[i]) : i \in 1..Len(es)} |->
        Value(es[CHOOSE i \in 1..Len(es) :
                    /\ EntryKey(es[i]) = k
                    /\ \A j \in 1..Len(es) : EntryKey(es[j]) = k => j <= i])]

\* C5 as stated: each entry is split on its first "=>" only, the value
\* being the trimmed whole remainder; an entry without "=>" maps its
\* trimmed text to the empty string; the last entry of a key wins.
C5_FirstArrowOnly ==
    (tOp = "map" /\ stored.some)
        => tOut = Ok(LastWins(Entries(stored.v), EntryRest))

\* C5 as amended: each entry is split on EVERY "=>"; the key is the
\* trimmed text before the first "=>" and the value the trimmed text
\* between the first and the second "=>" (up to the end of the entry when
\* there is no second one), what follows a second "=>" being dropped; an
\* entry without "=>" maps its trimmed text to the empty string; the last
\* entry of a key wins.
C5_MapSecondPiece ==
    (tOp = "map" /\ stored.some)
        => tOut = Ok(LastWins(Entries(stored.v), EntrySecond))

\* map has been called on "a=>b=>c" and maps "a" to "b"
C5_Witness ==
    /\ tOp = "map"
    /\ stored = Some(<<"a","=",">","b","=",">","c">>)
    /\ tOut = Ok([k \in {<<"a">>} |-> <<"b">>])

Truthy ==
    {<<"t">>, <<"t","r","u","e">>, <<"1">>, <<"y">>, <<"y","e","s">>}

\* C6: for a present value bool(key) does not panic and is true exactly
\* when the lower-cased value, untrimmed, is one of t, true, 1, y, yes.
C6_BoolTruthy ==
    (tOp = "bool" /\ stored.some)
        => /\ ~tOut.panic
           /\ tOut.val <=> (\E w \in Truthy :
                               /\ Len(w) = Len(stored.v)
                               /\ \A i \in 1..Len(w) : LowerChar(stored.v[i]) = w[i])

\* bool has been called on "YES" and answered true
C6_Witness ==
    /\ tOp = "bool"
    /\ stored = Some(<<"Y","E","S">>)
    /\ tOut = Ok(TRUE)

----------------------------------------------------------------------------
(* MultiConfig (src/src/multi.rs).  A source is a HashMap config: a table  *)
(* from keys to what it holds.  get is one step per source probed, so that *)
(* the order of the probes is part of the state.                           *)

MKeys == {"x", "y"}

MVals == {<<"1">>, <<"2">>}

Tables == [MKeys -> {None} \cup {Some(v) : v \in MVals}]

RECURSIVE reversed(_)
\* the sources in the opposite order
reversed(cs) == IF cs = <<>> THEN <<>> ELSE Append(reversed(Tail(cs)), Head(cs))

\* MultiConfig::new: the vector is moved into the struct as it is
MultiConfig_new(cs) == cs

\* a probe that never ends the loop
never_found(r) == FALSE

\* The match in MultiConfig::get: Some(value) returns, None continues
found(r) == r.some

MultiInit ==
    /\ mGiven \in SeqsUpTo(Tables, MaxSources)
    /\ configs = <<>>
    /\ mPc = "start"
    /\ mKey = "x"
    /\ mIdx = 0
    /\ mProbes = <<>>
    /\ mResult = None
    /\ stored = None /\ tOp = "off" /\ tOut = Ok(None)
    /\ SimpleIdle /\ EnvIdle

\* MultiConfig::new(configs)
MultiNew ==
    /\ mPc = "start"
    /\ configs' = MultiConfig_new(mGiven)
    /\ mPc' = "idle"
    /\ UNCHANGED <<mGiven, mKey, mIdx, mProbes, mResult>>
    /\ UNCHANGED <<typedVars, simpleVars, envVars>>

\* MultiConfig::get(key) is entered: self.configs.iter()
MultiGet(k) ==
    /\ mPc \in {"idle", "done"}
    /\ mKey' = k
    /\ mIdx' = 1
    /\ mProbes' = <<>>
    /\ mResult' = None
    /\ mPc' = "iter"
    /\ UNCHANGED <<mGiven, configs>>
    /\ UNCHANGED <<typedVars, simpleVars, envVars>>

\* One turn of the loop: config.get(key) on the next source
MultiProbe ==
    /\ mPc = "iter"
    /\ mIdx <= Len(configs)
    /\ LET r == HashMap_get(configs[mIdx][mKey])
       IN  /\ mProbes' = Append(mProbes, mIdx)
           /\ IF found(r)
              THEN /\ mResult' = r
                   /\ mPc' = "done"
                   /\ mIdx' = mIdx
              ELSE /\ mResult' = mResult
                   /\ mPc' = "iter"
                   /\ mIdx' = mIdx + 1
    /\ UNCHANGED <<mGiven, configs, mKey>>
    /\ UNCHANGED <<typedVars, simpleVars, envVars>>

\* The iterator is exhausted: get returns None
MultiExhausted ==
    /\ mPc = "iter"
    /\ mIdx > Len(configs)
    /\ mResult' = None
    /\ mPc' = "done"
    /\ UNCHANGED <<mGiven, configs, mKey, mIdx, mProbes>>
    /\ UNCHANGED <<typedVars, simpleVars, envVars>>

MultiNext ==
    \/ MultiNew
    \/ \E k \in MKeys : MultiGet(k)
    \/ MultiProbe
    \/ MultiExhausted

SpecMulti == MultiInit /\ [][MultiNext]_vars

\* C1: get(key) returns the value of the first source, in the order given
\* to new, that has the key, and absent exactly when no source has it (the
\* empty list of sources too).
C1_FirstPresentWins ==
    mPc = "done" =>
        LET has == {i \in 1..Len(mGiven) : mGiven[i][mKey].some}
        IN  /\ has = {} <=> mResult = None
            /\ has # {} =>
                  mResult = mGiven[CHOOSE i \in has : \A j \in has : i <= j][mKey]

\* get has returned the first source's value although the second source
\* holds another value for the key
C1_Witness ==
    /\ mPc = "done"
    /\ Len(mGiven) = 2
    /\ mGiven[1][mKey] = Some(<<"1">>)
    /\ mGiven[2][mKey] = Some(<<"2">>)
    /\ mResult = Some(<<"1">>)

\* C2: during one get the sources are probed one at a time in the order
\* given to new, none twice, a source only after every earlier one has
\* answered absent, and none after a source answered present; the list of
\* sources stays as constructed across get calls.
C2_ProbesInOrder ==
    /\ mPc \in {"idle", "iter", "done"} => configs = mGiven
    /\ mPc \in {"iter", "done"} =>
          /\ Len(mProbes) <= Len(mGiven)
          /\ \A i \in 1..Len(mProbes) : mProbes[i] = i
          /\ \A i \in 1..(Len(mProbes) - 1) : ~mGiven[i][mKey].some
          /\ mPc = "iter" => \A i \in 1..Len(mProbes) : ~mGiven[i][mKey].some
    /\ mPc = "done" =>
          \/ Len(mProbes) = Len(mGiven)
          \/ mGiven[Len(mProbes)][mKey].some

\* a get has ended after probing only the first source, the second source
\* holding the key too
C2_Witness ==
    /\ mPc = "done"
    /\ Len(mGiven) = 2
    /\ mProbes = <<1>>
    /\ mGiven[2][mKey].some
    /\ mKey = "y"

----------------------------------------------------------------------------
(* Simple (src/src/simple.rs).  A Result is [ok |-> TRUE, v |-> x] or      *)
(* [ok |-> FALSE, e |-> kind].                                             *)

ResOk(x) == [ok |-> TRUE, v |-> x]

ResErr(e) == [ok |-> FALSE, e |-> e]

\* parse_line in which a line without "=" is skipped like a comment
parse_line_lenient(line) ==
    LET l == trim(line)
        parts == splitn2(l, <<"=">>)
    IN  IF starts_with(l, <<"#">>) \/ Len(l) < 1 \/ Len(parts) < 2
        THEN ResOk(None)
        ELSE ResOk(Some(<<trim(parts[1]), trim(parts[2])>>))

\* parse_line
parse_line(line) ==
    LET l == trim(line)
    IN  IF starts_with(l, <<"#">>) THEN ResOk(None)
        ELSE IF Len(l) < 1 THEN ResOk(None)
        ELSE LET parts == splitn2(l, <<"=">>)
             IN  IF Len(parts) < 2 THEN ResErr("InvalidKeyValuePair")
                 ELSE ResOk(Some(<<trim(parts[1]), trim(parts[2])>>))

RECURSIVE parse_lines(_, _)
\* The loop of parse over the lines left: the first error is returned, a
\* pair is inserted into the table
parse_lines(lines, values) ==
    IF lines = <<>> THEN ResOk(values)
    ELSE LET r == parse_line(Head(lines))
         IN  IF ~r.ok THEN ResErr(r.e)
             ELSE IF ~r.v.some THEN parse_lines(Tail(lines), values)
             ELSE parse_lines(Tail(lines), insert(values, r.v.v[1], r.v.v[2]))

\* parse
parse(s) == parse_lines(split(s, <<"\n">>), <<>>)

\* Simple::from_str
from_str(s) ==
    LET r == parse(s)
    IN  IF r.ok THEN ResOk([values |-> r.v]) ELSE ResErr(r.e)

\* Simple::get of the Config trait
Simple_get(self, key) ==
    IF key \in DOMAIN self.values THEN Some(self.values[key]) ELSE None

SimpleChars == {"\n", "#", "=", " ", "a"}

\* The lines of the test of parse_line, the example of the documentation
\* and inputs that define a key twice
SimpleExamples ==
    { <<" "," ","#"," ","c"," ">>,
      <<" "," ","t","e","s","t">>,
      <<" "," ","f","o","o"," "," ","="," "," ","b","a","r"," "," ">>,
      <<"b","a","z","=","f","o","o">>,
      <<"#","c","\n","u","=","m",":","/","\n","d"," "," ","="," ","t","\n">>,
      <<"a","=","1","\n","a","=","2">>,
      <<"a","=","1","\n","b","\n","a","=","2">>,
      <<"a","=","b","=","c","\r","\n","\t","#","=">> }

SimpleInputs == SeqsUpTo(SimpleChars, MaxInput) \cup SimpleExamples

SimpleKeys ==
    {<<>>, <<"a">>, <<"a","a">>, <<"#">>, <<"f","o","o">>, <<"d">>, <<"b">>}

SimpleInit ==
    /\ sInput \in SimpleInputs
    /\ sPc = "start"
    /\ sResult = <<>>
    /\ sKey = <<>>
    /\ sGot = None
    /\ stored = None /\ tOp = "off" /\ tOut = Ok(None)
    /\ MultiIdle /\ EnvIdle

\* Simple::from_str(s): a config or an error
SimpleFromStr ==
    /\ sPc = "start"
    /\ sResult' = from_str(sInput)
    /\ sPc' = IF sResult'.ok THEN "built" ELSE "failed"
    /\ UNCHANGED <<sInput, sKey, sGot>>
    /\ UNCHANGED <<typedVars, multiVars, envVars>>

\* get(key) on the config from_str returned
SimpleGet(k) ==
    /\ sPc \in {"built", "read"}
    /\ sKey' = k
    /\ sGot' = Simple_get(sResult.v, k)
    /\ sPc' = "read"
    /\ UNCHANGED <<sInput, sResult>>
    /\ UNCHANGED <<typedVars, multiVars, envVars>>

SimpleNext ==
    \/ SimpleFromStr
    \/ \E k \in SimpleKeys : SimpleGet(k)

SpecSimple == SimpleInit /\ [][SimpleNext]_vars

\* The trimmed lines of s that are neither empty nor comments, by their
\* number in s
PairLines(s) ==
    {n \in 1..Len(Fields(s, "\n")) :
        /\ Fields(s, "\n")[n] # <<>>
        /\ Fields(s, "\n")[n][1] # "#"}

\* The position of the first "=" of a line; Len + 1 when it has none
FirstEq(l) == NthAt(l, "=", 1)

\* C7: from_str fails with InvalidKeyValuePair, returning no config,
\* exactly when a line that is neither empty nor a comment after trimming
\* has no "="; otherwise each such line is cut at its first "=" into a
\* trimmed key and a trimmed value, get(k) is the value of the last line
\* whose key is k, and absent when no line has the key k.
C7_SimpleRoundTrip ==
    LET ls == Fields(sInput, "\n")
        defs(k) == {n \in PairLines(sInput) :
                       Core(SubSeq(ls[n], 1, FirstEq(ls[n]) - 1), Whitespace) = k}
    IN  /\ sPc = "failed" =>
              /\ sResult = ResErr("InvalidKeyValuePair")
              /\ \E n \in PairLines(sInput) : FirstEq(ls[n]) > Len(ls[n])
        /\ sPc \in {"built", "read"} =>
              /\ sResult.ok
              /\ \A n \in PairLines(sInput) : FirstEq(ls[n]) <= Len(ls[n])
        /\ sPc = "read" =>
              IF defs(sKey) = {} THEN sGot = None
              ELSE LET n == CHOOSE n \in defs(sKey) : \A m \in defs(sKey) : m <= n
                   IN  sGot = Some(Core(SubSeq(ls[n], FirstEq(ls[n]) + 1, Len(ls[n])),
                                        Whitespace))

\* the key "a" is defined by two lines and get("a") is the second value
C7_Witness ==
    /\ sPc = "read"
    /\ sInput = <<"a","=","1","\n","a","=","2">>
    /\ sKey = <<"a">>
    /\ sGot = Some(<<"2">>)

----------------------------------------------------------------------------
(* Environment (src/src/env.rs).  The process environment is a table from  *)
(* the names of the variables that are set to their values; a value is an  *)
(* OsString, which need not be valid Unicode.  eOp, eKey, eName and        *)
(* eResult hold the most recent call, the name it looked up and what it    *)
(* returned.                                                               *)

OsStr(s) == [unicode |-> TRUE, s |-> s]

NotUnicode == [unicode |-> FALSE]

EnvValues == {OsStr(<<"b","a","z">>), OsStr(<<"q","u","x">>), NotUnicode}

\* new without the underscore after the prefix
Environment_new_bare(p) == p

\* Environment::new
Environment_new(p) == IF Len(p) > 0 THEN p \o <<"_">> ELSE <<>>

\* The name Environment::get looks up for key
env_key(self, key) ==
    to_uppercase(replace(replace(self.prefix \o key, ".", "_"), "/", "_"))

\* std::env::var: the value of a variable that is set and valid Unicode
env_var(e, name) ==
    IF name \notin DOMAIN e THEN ResErr("NotPresent")
    ELSE IF ~e[name].unicode THEN ResErr("NotUnicode")
    ELSE ResOk(e[name].s)

\* get with an empty string in place of None
Environment_get_or_default(e, self, key) ==
    LET r == env_var(e, env_key(self, key))
    IN  IF r.ok THEN Some(r.v) ELSE Some(<<>>)

\* Environment::get of the Config trait, in the environment e
Environment_get(e, self, key) ==
    LET r == env_var(e, env_key(self, key))
    IN  IF r.ok THEN Some(r.v) ELSE None

PrefixChars == {"p", "."}

Prefixes ==
    SeqsUpTo(PrefixChars, MaxPrefix)
        \cup {<<"t","e","s","t","_","g","e","t">>, <<"m","y","/","a">>}

\* The keys looked up: those of the test and of the documentation, and
\* short ones with each of the characters get replaces
EnvKeys ==
    { <<>>, <<"k">>, <<".">>, <<"/">>, <<"k",".","K","/","k">>,
      <<"f","o","o",".","b","a","r">>, <<"f","o","o","/","b","a","r">>,
      <<"F","O","O","_","B","A","R">> }

EnvInit ==
    /\ rawPrefix \in Prefixes
    /\ prefix = Environment_new(rawPrefix)
    /\ env = <<>>
    /\ eOp = "new"
    /\ eKey = <<>>
    /\ eName = <<>>
    /\ eResult = None
    /\ eFed = FALSE
    /\ stored = None /\ tOp = "off" /\ tOut = Ok(None)
    /\ MultiIdle /\ SimpleIdle

\* The names the keys of the model lead to
VarNames == {env_key([prefix |-> prefix], k) : k \in EnvKeys} \ {<<>>}

\* std::env::set_var(name, value), by any part of the process
SetVar(name, value) ==
    /\ name \in DOMAIN env \/ Cardinality(DOMAIN env) < MaxEnvVars
    /\ env' = insert(env, name, value)
    /\ eOp' = "set"
    /\ eKey' = <<>> /\ eName' = <<>> /\ eResult' = None /\ eFed' = FALSE
    /\ UNCHANGED <<rawPrefix, prefix>>
    /\ UNCHANGED <<typedVars, multiVars, simpleVars>>

\* std::env::remove_var(name)
RemoveVar(name) ==
    /\ name \in DOMAIN env
    /\ env' = [x \in DOMAIN env \ {name} |-> env[x]]
    /\ eOp' = "remove"
    /\ eKey' = <<>> /\ eName' = <<>> /\ eResult' = None /\ eFed' = FALSE
    /\ UNCHANGED <<rawPrefix, prefix>>
    /\ UNCHANGED <<typedVars, multiVars, simpleVars>>

\* Environment::get(key)
EnvGet(key) ==
    /\ eOp' = "get"
    /\ eKey' = key
    /\ eName' = env_key([prefix |-> prefix], key)
    /\ eResult' = Environment_get(env, [prefix |-> prefix], key)
    /\ eFed' = FALSE
    /\ UNCHANGED <<rawPrefix, prefix, env>>
    /\ UNCHANGED <<typedVars, multiVars, simpleVars>>

\* Environment::get with the name the previous get looked up as its key
\* (once: the names would grow without end)
EnvGetDerived ==
    /\ eOp = "get"
    /\ ~eFed
    /\ eOp' = "get"
    /\ eKey' = eName
    /\ eName' = env_key([prefix |-> prefix], eName)
    /\ eResult' = Environment_get(env, [prefix |-> prefix], eName)
    /\ eFed' = TRUE
    /\ UNCHANGED <<rawPrefix, prefix, env>>
    /\ UNCHANGED <<typedVars, multiVars, simpleVars>>

EnvNext ==
    \/ \E n \in VarNames, v \in EnvValues : SetVar(n, v)
    \/ \E n \in VarNames : RemoveVar(n)
    \/ \E k \in EnvKeys : EnvGet(k)
    \/ EnvGetDerived

SpecEnv == EnvInit /\ [][EnvNext]_vars

\* s with "_" for every "." and "/", in upper case
UpperUnderscored(s) ==
    [i \in 1..Len(s) |-> UpperChar(IF s[i] \in {".", "/"} THEN "_" ELSE s[i])]

\* C8 as stated: for a non-empty prefix p, get(k) looks up
\* UPPER(p + "_" + REPLACE(k)), the replacement of "." and "/" by "_" being
\* applied to the key only; for the empty prefix it looks up
\* UPPER(REPLACE(k)).
C8_ReplaceKeyOnly ==
    eOp = "get" =>
        eName = IF rawPrefix = <<>> THEN UpperUnderscored(eKey)
                ELSE [i \in 1..Len(rawPrefix) |-> UpperChar(rawPrefix[i])]
                     \o <<"_">> \o UpperUnderscored(eKey)

\* C8 as amended: for a non-empty prefix p, get(k) looks up
\* UPPER(REPLACE(p + "_" + k)), the replacement of "." and "/" by "_" being
\* applied to the prefix as well as to the key; for the empty prefix it
\* looks up UPPER(REPLACE(k)) with no leading underscore.
C8_ReplaceWholeName ==
    eOp = "get" =>
        LET name == IF rawPrefix = <<>> THEN UpperUnderscored(eKey)
                    ELSE UpperUnderscored(rawPrefix \o <<"_">> \o eKey)
        IN  /\ eName = name
            /\ eResult = IF name \in DOMAIN env /\ env[name].unicode
                         THEN Some(env[name].s) ELSE None

\* get("foo.bar") under the prefix "my/a" has looked up MY_A_FOO_BAR
C8_Witness ==
    /\ eOp = "get"
    /\ rawPrefix = <<"m","y","/","a">>
    /\ eKey = <<"f","o","o",".","b","a","r">>
    /\ eName = <<"M","Y","_","A","_","F","O","O","_","B","A","R">>

\* What the environment holds now for the name of the last call
HeldNow == IF eName' \in DOMAIN env' THEN Some(env'[eName']) ELSE None

\* C9 as stated: every get returns a value exactly when the variable is set
\* at the moment of the call, the value being the one it has then, and
\* absent when it is unset; get leaves the environment as it is.
C9_LiveValueIfSet ==
    [][eOp' = "get" =>
          /\ env' = env
          /\ eResult'.some <=> HeldNow.some
          /\ (HeldNow.some /\ HeldNow.v.unicode) => eResult' = Some(HeldNow.v.s)]_vars

\* C9 as amended: every get returns the value the variable has at the
\* moment of the call if it is set to valid Unicode, and absent if it is
\* unset or its value is not valid Unicode; nothing an earlier get
\* returned is kept, and get leaves the environment as it is.
C9_LiveUnicodeValue ==
    [][eOp' = "get" =>
          /\ env' = env
          /\ eResult' = IF HeldNow.some /\ HeldNow.v.unicode
                        THEN Some(HeldNow.v.s) ELSE None]_vars

\* a get has returned the value its variable is set to
C9_Witness ==
    /\ eOp = "get"
    /\ eName \in DOMAIN env
    /\ eResult = Some(<<"q","u","x">>)
    /\ env[eName] = OsStr(<<"q","u","x">>)

\* C10 as stated: the name T(k) derived from a key is idempotent,
\* T(T(k)) = T(k), for every prefix.
C10_Idempotent ==
    (eOp = "get" /\ eFed) => eName = eKey

\* C10 as amended: T(k) depends on the prefix and k alone and computing it
\* leaves the adapter's prefix as constructed; T(T(k)) = T(k) for the
\* empty prefix; for a non-empty prefix p the replacement and the
\* upper-casing are idempotent but the prefix is prepended again:
\* T(T(k)) = UPPER(REPLACE(p + "_")) + T(k).
C10_IdempotentUpToPrefix ==
    /\ prefix = IF rawPrefix = <<>> THEN <<>> ELSE rawPrefix \o <<"_">>
    /\ eOp = "get" => eName = UpperUnderscored(prefix \o eKey)
    /\ (eOp = "get" /\ eFed) =>
          /\ eName = UpperUnderscored(prefix) \o eKey
          /\ rawPrefix = <<>> => eName = eKey
          /\ rawPrefix # <<>> => eName # eKey

\* the name FOO_BAR has been looked up again as a key under the empty
\* prefix and led to itself
C10_Witness ==
    /\ eOp = "get"
    /\ eFed
    /\ rawPrefix = <<>>
    /\ eKey = <<"F","O","O","_","B","A","R">>
    /\ eName = eKey

====
